---------------------------- MODULE Spec2Model ----------------------------
(***************************************************************************)
(* Model of the Simple-Pendulum-Simulator core: the piecewise-linear       *)
(* Function with its cached integral (src/graph/function.py), the          *)
(* VectorFunction pair (src/graph/vector_function.py) and the stepping     *)
(* Body / AnimatedBody / Pendulum with Gravity and PendulumTension         *)
(* (src/physics/*.py), plus the driver's callbacks                         *)
(* (src/generate_simulation.py).                                           *)
(*                                                                         *)
(* Python objects live in a heap (a sequence of Function objects addressed *)
(* by their position), because the code shares Function objects by         *)
(* reference: a Function's __integral is a reference, and so are the       *)
(* components of body.velocity and body.position.                          *)
(*                                                                         *)
(* Numbers are exact rationals <<n, d>> (d > 0, lowest terms).  Python     *)
(* floats round every operation; that rounding is not modelled, so every   *)
(* numeric statement below is a statement in exact arithmetic.             *)
(* A raised Python exception is the field err of an operation's result;    *)
(* the heap returned with it holds whatever the code had already mutated.  *)
(***************************************************************************)
EXTENDS Integers, Sequences, FiniteSets, TLC

(***************************************************************************)
(* Exact rational arithmetic                                               *)
(***************************************************************************)
Abs(n) == IF n < 0 THEN -n ELSE n

RECURSIVE GCD(_, _)
GCD(a, b) == IF b = 0 THEN a ELSE GCD(b, a % b)

RNorm(n, d) ==
    LET g == GCD(Abs(n), Abs(d))
        s == IF d < 0 THEN -1 ELSE 1
    IN  <<(s * n) \div g, (s * d) \div g>>

R(n) == <<n, 1>>
\* Sums go over the least common denominator, which keeps the integers small.
LCM(a, b)  == (a \div GCD(a, b)) * b
RAdd(a, b) == LET l == LCM(a[2], b[2])
              IN  RNorm(a[1] * (l \div a[2]) + b[1] * (l \div b[2]), l)
RSub(a, b) == RAdd(a, <<-b[1], b[2]>>)
RMul(a, b) == RNorm(a[1] * b[1], a[2] * b[2])
RDiv(a, b) == RNorm(a[1] * b[2], a[2] * b[1])      \* b # 0
RLt(a, b)  == a[1] * b[2] < b[1] * a[2]
RGt(a, b)  == RLt(b, a)
RAbs(a)    == <<Abs(a[1]), a[2]>>
RZero      == <<0, 1>>

(***************************************************************************)
(* Exceptions                                                              *)
(***************************************************************************)
NoErr             == "none"
ValueError        == "ValueError"
IndexError        == "IndexError"
ZeroDivisionError == "ZeroDivisionError"
KeyError          == "KeyError"
AttributeError    == "AttributeError"

(***************************************************************************)
(* IntegrationMethod (src/graph/integration_method.py)                     *)
(***************************************************************************)
EULER       == "EULER"
TRAPEZOIDAL == "TRAPEZOIDAL"
RK4         == "RK4"
IntegrationMethod == {EULER, TRAPEZOIDAL, RK4}

(***************************************************************************)
(* Function (src/graph/function.py).  A Function object is a record        *)
(* [points, integral, method]: points is the list __points of <<x, y>>,    *)
(* integral the heap address of __integral (0 is None), method the         *)
(* __integration_method (only ever set on an integral).                    *)
(***************************************************************************)
None == 0

Function_init == [points |-> <<>>, integral |-> None, method |-> "none"]

\* Allocation of a new object: the heap grows by one cell.
New(h, obj) == [h |-> Append(h, obj), id |-> Len(h) + 1]

\* Python list indexing: i in -len..len-1 addresses an element.
PyInRange(s, i) == i >= -Len(s) /\ i < Len(s)
PyAt(s, i) == IF i < 0 THEN s[Len(s) + i + 1] ELSE s[i + 1]

\* list.insert(index, item) for 0 <= index <= len
ListInsert(s, index, item) ==
    SubSeq(s, 1, index) \o <<item>> \o SubSeq(s, index + 1, Len(s))

\* list.pop(index) for an index in range
ListPop(s, i) ==
    LET k == IF i < 0 THEN Len(s) + i + 1 ELSE i + 1
    IN  SubSeq(s, 1, k - 1) \o SubSeq(s, k + 1, Len(s))

\* A search that always answers the end of the section.
search_best_index_stop(points, x, start, stop) == stop

\* A search that always answers the start of the section.
search_best_index_start(points, x, start, stop) == start

RECURSIVE search_best_index(_, _, _, _)
search_best_index(points, x, start, stop) ==
    IF start = stop THEN start
    ELSE IF RGt(x, points[start + (stop - start) \div 2 + 1][1])
         THEN search_best_index(points, x, start + (stop - start) \div 2 + 1, stop)
    ELSE IF RLt(x, points[start + (stop - start) \div 2 + 1][1])
         THEN search_best_index(points, x, start, start + (stop - start) \div 2)
    ELSE start + (stop - start) \div 2

(***************************************************************************)
(* Results of calls.  A call that returns a value gives [err, val]; a call *)
(* that mutates Functions gives [h, err], the heap as the call leaves it   *)
(* and the exception it raised.  Where the code names an intermediate      *)
(* result, the model passes it on as the parameter of the operator that    *)
(* models the rest of the function (name_1, name_2, ...).                  *)
(***************************************************************************)
Failed(e, v) == [err |-> e, val |-> v]
Value(v)     == [err |-> NoErr, val |-> v]
HErr(h, e)   == [h |-> h, err |-> e]
HOk(h)       == [h |-> h, err |-> NoErr]

\* An evaluation that holds the value of a up to b.
Function_call_2_step(a, b, x) == Value(a[2])

\* Function.__call__, lines 68-73: the line through a and b, at x.
Function_call_2(a, b, x) ==
    IF b[1] = a[1] THEN Failed(ZeroDivisionError, RZero)
    ELSE Value(RAdd(RMul(RDiv(RSub(b[2], a[2]), RSub(b[1], a[1])),
                         RSub(x, a[1])),
                    a[2]))

\* Function.__call__, lines 68-69: a = points[index - 1], b = points[index]
Function_call_1(points, x, index) ==
    IF ~PyInRange(points, index) THEN Failed(IndexError, RZero)
    ELSE Function_call_2(PyAt(points, index - 1), PyAt(points, index), x)

\* An evaluation that searches the segment for every x.
Function_call_searched(points, x) ==
    IF Len(points) = 0 THEN Failed(ValueError, RZero)
    ELSE IF Len(points) = 1 THEN Value(points[1][2])
    ELSE Function_call_1(points, x, search_best_index(points, x, 0, Len(points)))

\* Function.__call__: the value of the function at x, or the exception.
Function_call(points, x) ==
    IF Len(points) = 0 THEN Failed(ValueError, RZero)
    ELSE IF Len(points) = 1 THEN Value(points[1][2])
    ELSE Function_call_1(points, x,
            IF RGt(x, points[Len(points)][1]) THEN Len(points) - 1
            ELSE IF RLt(x, points[1][1]) THEN 1
            ELSE search_best_index(points, x, 0, Len(points)))

\* Function.seek
Function_seek(points, index) ==
    IF PyInRange(points, index) THEN Value(PyAt(points, index))
    ELSE Failed(IndexError, <<RZero, RZero>>)

\* Function.pop: removes and returns the point at index.
Function_pop(h, id, index) ==
    IF PyInRange(h[id].points, index)
    THEN [h |-> [h EXCEPT ![id].points = ListPop(@, index)], err |-> NoErr,
          val |-> PyAt(h[id].points, index)]
    ELSE [h |-> h, err |-> IndexError, val |-> <<RZero, RZero>>]

RECURSIVE Function_insert(_, _, _, _, _)
RECURSIVE integral_loop(_, _, _, _)

\* An append that reports an empty Function as evaluation does.
Function_append_as_call(h, id, dx, dy) ==
    IF Len(h[id].points) = 0 THEN HErr(h, ValueError)
    ELSE Function_insert(h, id,
                         RAdd(h[id].points[Len(h[id].points)][1], dx),
                         RAdd(h[id].points[Len(h[id].points)][2], dy), FALSE)

\* Function.append
Function_append(h, id, dx, dy) ==
    IF Len(h[id].points) = 0 THEN HErr(h, IndexError)
    ELSE Function_insert(h, id,
                         RAdd(h[id].points[Len(h[id].points)][1], dx),
                         RAdd(h[id].points[Len(h[id].points)][2], dy), FALSE)

\* _integrate_euler(f, derivative, dx):
\*     f.append(dx, dx * derivative(f.seek(-1)[0]))
integrate_euler_2(h, f, dx, c) ==
    IF c.err # NoErr THEN HErr(h, c.err)
    ELSE Function_append(h, f, dx, RMul(dx, c.val))

integrate_euler_1(h, f, d, dx, s) ==
    IF s.err # NoErr THEN HErr(h, s.err)
    ELSE integrate_euler_2(h, f, dx, Function_call(h[d].points, s.val[1]))

\* An Euler step that evaluates the derivative at its own last x.
integrate_euler_at_end(h, f, d, dx) ==
    integrate_euler_1(h, f, d, dx, Function_seek(h[d].points, -1))

integrate_euler(h, f, d, dx) ==
    integrate_euler_1(h, f, d, dx, Function_seek(h[f].points, -1))

\* _integrate_trapezoidal(f, derivative, dx, splits = 1): no caller passes
\* splits, so the loop runs once, with width = dx:
\*     area += (width / 2) * (derivative(x - width) + derivative(x))
integrate_trapezoidal_2(h, f, dx, width, c1, c2) ==
    IF c1.err # NoErr THEN HErr(h, c1.err)
    ELSE IF c2.err # NoErr THEN HErr(h, c2.err)
    ELSE Function_append(h, f, dx,
                         RAdd(RZero, RMul(RDiv(width, R(2)), RAdd(c1.val, c2.val))))

integrate_trapezoidal_1(h, f, d, dx, width, s) ==
    IF s.err # NoErr THEN HErr(h, s.err)
    ELSE integrate_trapezoidal_2(h, f, dx, width,
                                 Function_call(h[d].points, RSub(s.val[1], width)),
                                 Function_call(h[d].points, s.val[1]))

integrate_trapezoidal(h, f, d, dx) ==
    integrate_trapezoidal_1(h, f, d, dx, dx, Function_seek(h[d].points, -1))

\* An RK4 step that counts the midpoint slope twice instead of four times.
integrate_rk4_2_simpson_less(h, f, dx, k1, m, k4) ==
    IF k1.err # NoErr THEN HErr(h, k1.err)
    ELSE IF m.err # NoErr THEN HErr(h, m.err)
    ELSE IF k4.err # NoErr THEN HErr(h, k4.err)
    ELSE Function_append(h, f, dx,
            RMul(RDiv(dx, R(6)),
                 RAdd(RAdd(k1.val, RMul(R(2), m.val)), k4.val)))

\* _integrate_rk4(f, derivative, dx): k23 = 2 * derivative(x + dx / 2),
\*     f.append(dx, dx / 6 * (k1 + 2 * k23 + k4))
integrate_rk4_2(h, f, dx, k1, m, k4) ==
    IF k1.err # NoErr THEN HErr(h, k1.err)
    ELSE IF m.err # NoErr THEN HErr(h, m.err)
    ELSE IF k4.err # NoErr THEN HErr(h, k4.err)
    ELSE Function_append(h, f, dx,
            RMul(RDiv(dx, R(6)),
                 RAdd(RAdd(k1.val, RMul(R(2), RMul(R(2), m.val))), k4.val)))

integrate_rk4_1(h, f, d, dx, s) ==
    IF s.err # NoErr THEN HErr(h, s.err)
    ELSE integrate_rk4_2(h, f, dx,
                         Function_call(h[d].points, s.val[1]),
                         Function_call(h[d].points, RAdd(s.val[1], RDiv(dx, R(2)))),
                         Function_call(h[d].points, RAdd(s.val[1], dx)))

integrate_rk4(h, f, d, dx) ==
    integrate_rk4_1(h, f, d, dx, Function_seek(h[d].points, -1))

\* The match statement of Function.integral and Function.__update_integral:
\* a method that is none of the three matches no case.
integrate_with(h, method, f, d, dx) ==
    IF method = TRAPEZOIDAL THEN integrate_trapezoidal(h, f, d, dx)
    ELSE IF method = EULER THEN integrate_euler(h, f, d, dx)
    ELSE IF method = RK4 THEN integrate_rk4(h, f, d, dx)
    ELSE HOk(h)

\* Function.__update_integral: one new trailing sample of the cached integral.
update_integral(h, id) ==
    integrate_with(h, h[h[id].integral].method, h[id].integral, id,
                   IF Len(h[id].points) > 1
                   THEN RSub(h[id].points[Len(h[id].points)][1],
                             h[id].points[Len(h[id].points) - 1][1])
                   ELSE RZero)

\* Function.integral, lines 199-212: the seed (x_i, y_i), then the loop.
Function_integral_2(r0, id, method) ==
    IF r0.err # NoErr THEN r0 ELSE integral_loop(r0.h, id, method, 1)

\* Function.integral, lines 196-197: a is the new Function object, which
\* becomes self.__integral.
Function_integral_1(a, id, method, x_i, y_i) ==
    Function_integral_2(
        Function_insert([a.h EXCEPT ![id].integral = a.id], a.id, x_i, y_i, FALSE),
        id, method)

\* Function.integral
Function_integral(h, id, method, x_i, y_i) ==
    Function_integral_1(New(h, [Function_init EXCEPT !.method = method]),
                        id, method, x_i, y_i)

\* The loops of Function.integral over enumerate(self.__points[1:], 1);
\* i is the 0-based index of the point whose segment is integrated next.
integral_loop_1(r, id, method, i) ==
    IF r.err # NoErr THEN r ELSE integral_loop(r.h, id, method, i + 1)

integral_loop(h, id, method, i) ==
    IF i >= Len(h[id].points) THEN HOk(h)
    ELSE integral_loop_1(
            integrate_with(h, method, h[id].integral, id,
                           RSub(h[id].points[i + 1][1], h[id].points[i][1])),
            id, method, i)

\* An insert that keeps the cached integral as it is.
Function_insert_3_keep(h, id, integ) == HOk(h)

\* Function.insert, line 138: the integral is built anew, with the method
\* and the first point of the one cached.
Function_insert_3(h, id, integ) ==
    IF Len(h[integ].points) = 0 THEN HErr(h, IndexError)
    ELSE Function_integral(h, id, h[integ].method,
                           h[integ].points[1][1], h[integ].points[1][2])

\* An insert that builds the cached integral anew wherever the point went.
Function_insert_2_rebuild(h, id, index) ==
    IF h[id].integral = None THEN HOk(h)
    ELSE Function_insert_3(h, id, h[id].integral)

\* Function.insert, lines 134-138, with the point already in the list
Function_insert_2(h, id, index) ==
    IF h[id].integral = None THEN HOk(h)
    ELSE IF index = Len(h[id].points) - 1 THEN update_integral(h, id)
    ELSE Function_insert_3(h, id, h[id].integral)

\* Function.insert, line 132: self.__points.insert(index, (x, y))
Function_insert_1(h, id, x, y, index) ==
    Function_insert_2([h EXCEPT ![id].points = ListInsert(@, index, <<x, y>>)],
                      id, index)

\* An insert that never looks for a stored x.
Function_insert_unchecked(h, id, x, y, check) ==
    Function_insert_1(h, id, x, y,
                      search_best_index(h[id].points, x, 0, Len(h[id].points)))

\* Function.insert
Function_insert(h, id, x, y, check) ==
    IF check /\ \E i \in 1..Len(h[id].points) : h[id].points[i][1] = x
    THEN HErr(h, ValueError)
    ELSE Function_insert_1(h, id, x, y,
                           search_best_index(h[id].points, x, 0, Len(h[id].points)))

\* Function.from_iter: a new Function with every pair of the iterable inserted.
RECURSIVE from_iter_loop(_, _, _, _)
from_iter_loop_1(r, id, iterable, i) ==
    IF r.err # NoErr THEN r ELSE from_iter_loop(r.h, id, iterable, i + 1)

from_iter_loop(h, id, iterable, i) ==
    IF i > Len(iterable) THEN HOk(h)
    ELSE from_iter_loop_1(
            Function_insert(h, id, iterable[i][1], iterable[i][2], FALSE),
            id, iterable, i)

Function_from_iter_2(r, id) == [h |-> r.h, err |-> r.err, id |-> id]

Function_from_iter_1(a, iterable) ==
    Function_from_iter_2(from_iter_loop(a.h, a.id, iterable, 1), a.id)

Function_from_iter(h, iterable) ==
    Function_from_iter_1(New(h, Function_init), iterable)

\* Results of calls on a body: the heap and the body as the call leaves
\* them, and the exception it raised.
Raise(h, body, e) == [h |-> h, body |-> body, err |-> e]
Ok(h, body)       == [h |-> h, body |-> body, err |-> NoErr]

(***************************************************************************)
(* VectorFunction (src/graph/vector_function.py): a record [x, y] of the   *)
(* heap addresses of its two component Functions.                          *)
(***************************************************************************)
\* VectorFunction(): __post_init__ creates both components.
VectorFunction_init_2(a, b) == [h |-> b.h, vf |-> [x |-> a.id, y |-> b.id]]
VectorFunction_init_1(a) == VectorFunction_init_2(a, New(a.h, Function_init))
VectorFunction_init(h) == VectorFunction_init_1(New(h, Function_init))

\* An insert that leaves the y component alone.
VectorFunction_insert_1_x_only(r, vf, time, y) == r

\* VectorFunction.insert: x first, then y; an exception in x leaves y alone.
VectorFunction_insert_1(r, vf, time, y) ==
    IF r.err # NoErr THEN r ELSE Function_insert(r.h, vf.y, time, y, FALSE)

VectorFunction_insert(h, vf, time, x, y) ==
    VectorFunction_insert_1(Function_insert(h, vf.x, time, x, FALSE), vf, time, y)

\* VectorFunction.append
VectorFunction_append_1(r, vf, dt, dy) ==
    IF r.err # NoErr THEN r ELSE Function_append(r.h, vf.y, dt, dy)

VectorFunction_append(h, vf, dt, dx, dy) ==
    VectorFunction_append_1(Function_append(h, vf.x, dt, dx), vf, dt, dy)

\* VectorFunction.pop
VectorFunction_pop_2(r) == [h |-> r.h, err |-> r.err]

VectorFunction_pop_1(r, vf, index) ==
    IF r.err # NoErr THEN [h |-> r.h, err |-> r.err]
    ELSE VectorFunction_pop_2(Function_pop(r.h, vf.y, index))

VectorFunction_pop(h, vf, index) ==
    VectorFunction_pop_1(Function_pop(h, vf.x, index), vf, index)

\* A seek that raises nothing on an empty VectorFunction.
VectorFunction_seek_1_lenient(sx, sy) == Value(<<sx.val, sy.val>>)

\* VectorFunction.seek: the pair (x.seek(index), y.seek(index))
VectorFunction_seek_1(sx, sy) ==
    IF sx.err # NoErr THEN Failed(sx.err, <<sx.val, sy.val>>)
    ELSE [err |-> sy.err, val |-> <<sx.val, sy.val>>]

VectorFunction_seek(h, vf, index) ==
    VectorFunction_seek_1(Function_seek(h[vf.x].points, index),
                          Function_seek(h[vf.y].points, index))

\* VectorFunction.integrate: both components, then a new pair of the two
\* integral objects (vf is meaningful only when err is NoErr).
VectorFunction_integrate_2(ry, vf) ==
    [h |-> ry.h, err |-> ry.err,
     vf |-> [x |-> ry.h[vf.x].integral, y |-> ry.h[vf.y].integral]]

VectorFunction_integrate_1(rx, vf, t_i, y_i, method) ==
    IF rx.err # NoErr THEN [h |-> rx.h, err |-> rx.err, vf |-> vf]
    ELSE VectorFunction_integrate_2(Function_integral(rx.h, vf.y, method, t_i, y_i), vf)

VectorFunction_integrate(h, vf, t_i, x_i, y_i, method) ==
    VectorFunction_integrate_1(Function_integral(h, vf.x, method, t_i, x_i),
                               vf, t_i, y_i, method)

(***************************************************************************)
(* Finite precision.  The forces are computed in floating point with      *)
(* sqrt, atan2, cos and sin, whose values are irrational in general.  The  *)
(* model gives the force computation a finite precision of its own: Fix    *)
(* rounds a number toward zero to a multiple of 1/Precision, and it is     *)
(* applied to the samples the force formulas read and to the results of    *)
(* math.sqrt, math.cos, math.sin and of the divisions and products of the  *)
(* force formulas.  math_sqrt is exact on the squares of rationals it is   *)
(* given and never rounds a positive root to 0.  An angle is carried as    *)
(* the pair <<cos, sin>> of its direction, which is all the code ever      *)
(* takes of one.  The samples stored in the Functions and the integration  *)
(* schemes stay exact.                                                     *)
(***************************************************************************)
Precision == 4

Fix(q) == RNorm((IF q[1] < 0 THEN -1 ELSE 1) * ((Abs(q[1]) * Precision) \div q[2]),
                Precision)

RECURSIVE isqrt_between(_, _, _)
isqrt_between(n, lo, hi) ==
    IF hi - lo <= 1 THEN lo
    ELSE IF ((lo + hi) \div 2) * ((lo + hi) \div 2) <= n
         THEN isqrt_between(n, (lo + hi) \div 2, hi)
         ELSE isqrt_between(n, lo, (lo + hi) \div 2)
ISqrt(n) == isqrt_between(n, 0, (IF n < 46340 THEN n ELSE 46340) + 1)

AtLeastOne(m) == IF m = 0 THEN 1 ELSE m

SqrtFix(q, n, d) ==
    IF n * n = q[1] /\ d * d = q[2] THEN RNorm(n, d)
    ELSE RNorm(AtLeastOne(ISqrt((q[1] \div q[2]) * Precision * Precision
                                + ((q[1] % q[2]) * Precision * Precision) \div q[2])),
               Precision)

math_sqrt(q) == SqrtFix(q, ISqrt(q[1]), ISqrt(q[2]))

Hypot2(x, y) == RAdd(RMul(x, x), RMul(y, y))

\* <<cos(a), sin(a)>> for a = math.atan2(y, x); atan2(0, 0) is 0.
Direction(x, y, d) == <<Fix(RDiv(x, d)), Fix(RDiv(y, d))>>

atan2(y, x) ==
    IF x = RZero /\ y = RZero THEN <<R(1), RZero>>
    ELSE Direction(x, y, math_sqrt(Hypot2(x, y)))

(***************************************************************************)
(* Body / AnimatedBody / Pendulum (src/physics).  body is a record; forces *)
(* is the dict in insertion order, a sequence of                           *)
(* [kind, source_mass, source_radius].                                     *)
(***************************************************************************)
Gravity         == "Gravity"
PendulumTension == "PendulumTension"

\* Gravity.gravitational_constant in the model's units: the value 6.674e-11
\* only rescales source_mass.
gravitational_constant == R(1)

HasForce(body, kind) == \E i \in 1..Len(body.forces) : body.forces[i].kind = kind
ForceOf(body, kind) ==
    body.forces[CHOOSE i \in 1..Len(body.forces) : body.forces[i].kind = kind]

\* Pendulum.distance_from_pivot
distance_from_pivot_1(body, s) ==
    IF s.err # NoErr THEN Failed(s.err, RZero)
    ELSE Value(math_sqrt(Hypot2(Fix(RSub(s.val[1][2], body.pivot[1])),
                                Fix(RSub(s.val[2][2], body.pivot[2])))))

distance_from_pivot(h, body) ==
    IF ~body.pendulum THEN Failed(AttributeError, RZero)
    ELSE distance_from_pivot_1(body, VectorFunction_seek(h, body.position, -1))

\* Pendulum.angle_from_pivot, as <<cos, sin>>
angle_from_pivot_1(body, s) ==
    IF s.err # NoErr THEN Failed(s.err, <<RZero, RZero>>)
    ELSE Value(atan2(Fix(RSub(s.val[2][2], body.pivot[2])),
                     Fix(RSub(s.val[1][2], body.pivot[1]))))

angle_from_pivot(h, body) ==
    IF ~body.pendulum THEN Failed(AttributeError, <<RZero, RZero>>)
    ELSE angle_from_pivot_1(body, VectorFunction_seek(h, body.position, -1))

\* Gravity.get_magnitude: r is source_radius + height
Gravity_get_magnitude_2(body, f, r) ==
    IF r = RZero THEN Failed(ZeroDivisionError, RZero)
    ELSE Value(RMul(body.mass,
                    Fix(RDiv(RMul(gravitational_constant, f.source_mass),
                             RMul(r, r)))))

Gravity_get_magnitude_1(body, f, s) ==
    IF s.err # NoErr THEN Failed(s.err, RZero)
    ELSE Gravity_get_magnitude_2(body, f, Fix(RAdd(f.source_radius, s.val[2][2])))

Gravity_get_magnitude(h, body, f) ==
    Gravity_get_magnitude_1(body, f, VectorFunction_seek(h, body.position, -1))

\* Gravity.get_direction: always -pi/2
Gravity_get_direction == <<RZero, R(-1)>>

\* PendulumTension.get_direction
PendulumTension_get_direction_1(body, s) ==
    IF s.err # NoErr THEN Failed(s.err, <<RZero, RZero>>)
    ELSE IF ~body.pendulum THEN Failed(AttributeError, <<RZero, RZero>>)
    ELSE Value(atan2(Fix(RSub(body.pivot[2], s.val[2][2])),
                     Fix(RSub(body.pivot[1], s.val[1][2]))))

PendulumTension_get_direction(h, body) ==
    PendulumTension_get_direction_1(body, VectorFunction_seek(h, body.position, -1))

\* PendulumTension.get_magnitude: gm is Gravity's magnitude, d the direction
\* of the tension, v the last velocity and r the distance from the pivot,
\* in the order the code computes them.
PendulumTension_get_magnitude_1(body, gm, d, v, r) ==
    IF gm.err # NoErr THEN Failed(gm.err, RZero)
    ELSE IF d.err # NoErr THEN Failed(d.err, RZero)
    ELSE IF v.err # NoErr THEN Failed(v.err, RZero)
    ELSE IF r.err # NoErr THEN Failed(r.err, RZero)
    ELSE IF r.val = RZero THEN Failed(ZeroDivisionError, RZero)
    ELSE \* gravitational_tension + centripetal_tension
         Value(RAdd(RMul(gm.val, d.val[2]),
                    RMul(body.mass,
                         Fix(RDiv(Hypot2(Fix(v.val[1][2]), Fix(v.val[2][2])),
                                  r.val)))))

PendulumTension_get_magnitude(h, body) ==
    IF ~HasForce(body, Gravity) THEN Failed(KeyError, RZero)
    ELSE PendulumTension_get_magnitude_1(body,
            Gravity_get_magnitude(h, body, ForceOf(body, Gravity)),
            PendulumTension_get_direction(h, body),
            VectorFunction_seek(h, body.velocity, -1),
            distance_from_pivot(h, body))

get_magnitude(h, body, f) ==
    IF f.kind = Gravity THEN Gravity_get_magnitude(h, body, f)
    ELSE PendulumTension_get_magnitude(h, body)

get_direction(h, body, f) ==
    IF f.kind = Gravity THEN Value(Gravity_get_direction)
    ELSE PendulumTension_get_direction(h, body)

\* Body.get_net_force: the loop over self.forces.values(), from force i on,
\* with the sums so far; m and d are the magnitude and direction of force i.
RECURSIVE net_force_loop(_, _, _, _)
net_force_loop_1(h, body, i, acc, m, d) ==
    IF m.err # NoErr THEN Failed(m.err, acc)
    ELSE IF d.err # NoErr THEN Failed(d.err, acc)
    ELSE net_force_loop(h, body, i + 1,
            <<RAdd(acc[1], Fix(RMul(d.val[1], m.val))),
              RAdd(acc[2], Fix(RMul(d.val[2], m.val)))>>)

net_force_loop(h, body, i, acc) ==
    IF i > Len(body.forces) THEN Value(acc)
    ELSE net_force_loop_1(h, body, i, acc,
                          get_magnitude(h, body, body.forces[i]),
                          get_direction(h, body, body.forces[i]))

get_net_force(h, body) == net_force_loop(h, body, 1, <<RZero, RZero>>)

\* AnimatedBody.generate_acceleration
generate_acceleration_1(body, f) ==
    IF f.err # NoErr THEN f
    ELSE IF body.mass = RZero THEN Failed(ZeroDivisionError, f.val)
    ELSE Value(<<RDiv(f.val[1], body.mass), RDiv(f.val[2], body.mass)>>)

generate_acceleration(h, body) ==
    generate_acceleration_1(body, get_net_force(h, body))

\* Body.__post_init__ and AnimatedBody.__post_init__ (pivot and length are
\* the Pendulum's; pendulum tells a Pendulum from a plain AnimatedBody).
Body_init_3(mass, dt, pendulum, pivot, length, p, v, a) ==
    [h |-> a.h,
     body |-> [mass |-> mass, dt |-> dt, time |-> RZero, forces |-> <<>>,
               position |-> p.vf, velocity |-> v.vf, acceleration |-> a.vf,
               pre_step |-> <<>>, post_step |-> <<>>,
               pendulum |-> pendulum, pivot |-> pivot, length |-> length]]

Body_init_2(mass, dt, pendulum, pivot, length, p, v) ==
    Body_init_3(mass, dt, pendulum, pivot, length, p, v, VectorFunction_init(v.h))

Body_init_1(mass, dt, pendulum, pivot, length, p) ==
    Body_init_2(mass, dt, pendulum, pivot, length, p, VectorFunction_init(p.h))

Body_init(mass, dt, pendulum, pivot, length) ==
    Body_init_1(mass, dt, pendulum, pivot, length, VectorFunction_init(<<>>))

\* Body.add_force: self.forces[force] = force(self, *args); a kind already
\* present keeps its place in the dict and gets the new instance.
add_force(body, f) ==
    IF HasForce(body, f.kind)
    THEN [body EXCEPT !.forces =
            [i \in 1..Len(body.forces) |->
                IF body.forces[i].kind = f.kind THEN f ELSE body.forces[i]]]
    ELSE [body EXCEPT !.forces = Append(body.forces, f)]

\* A set_state that assigns neither self.velocity nor self.position.
set_state_4_unassigned(body, r2, r3) == Ok(r3.h, body)

\* AnimatedBody.set_state, line 64: self.position = self.velocity.integrate(...)
set_state_4(body, r2, r3) ==
    IF r3.err # NoErr THEN Raise(r3.h, [body EXCEPT !.velocity = r2.vf], r3.err)
    ELSE Ok(r3.h, [body EXCEPT !.velocity = r2.vf, !.position = r3.vf])

\* AnimatedBody.set_state, line 63: self.velocity = self.acceleration.integrate(...)
set_state_3(body, x_i, y_i, integration_method, r2) ==
    IF r2.err # NoErr THEN Raise(r2.h, body, r2.err)
    ELSE set_state_4(body, r2,
            VectorFunction_integrate(r2.h, r2.vf, RZero, x_i, y_i, integration_method))

set_state_2(body, v_ix, v_iy, x_i, y_i, integration_method, r1) ==
    IF r1.err # NoErr THEN Raise(r1.h, body, r1.err)
    ELSE set_state_3(body, x_i, y_i, integration_method,
            VectorFunction_integrate(r1.h, body.acceleration, RZero, v_ix, v_iy,
                                     integration_method))

\* AnimatedBody.set_state, line 61:
\*     self.acceleration.insert(0, *self.generate_acceleration())
set_state_1(h, body, v_ix, v_iy, x_i, y_i, integration_method, a) ==
    IF a.err # NoErr THEN Raise(h, body, a.err)
    ELSE set_state_2(body, v_ix, v_iy, x_i, y_i, integration_method,
            VectorFunction_insert(h, body.acceleration, RZero, a.val[1], a.val[2]))

\* AnimatedBody.set_state
set_state(h, body, v_ix, v_iy, x_i, y_i, integration_method) ==
    set_state_1(h, body, v_ix, v_iy, x_i, y_i, integration_method,
                generate_acceleration(h, body))

(***************************************************************************)
(* The driver's callbacks (src/generate_simulation.py).  A callback is a   *)
(* record [kind, base_velocity]; base_velocity is ResetVelocity's state.   *)
(* The tolerances compare an angle, which the model carries as             *)
(* <<cos, sin>>: abs(angle + pi/2) <= 0.01 is sin < 0 and                  *)
(* |cos| <= |sin| * tan(0.01), with tan(0.01) taken as 0.01.               *)
(***************************************************************************)
LockDistance  == "lock_distance"
ResetVelocity == "ResetVelocity"

DistanceTolerance == <<1, 100>>
PositionTolerance == <<1, 10>>
AngleTolerance    == <<1, 100>>

\* lock_distance(body), lines 21-24: the last position is replaced by the
\* point at body.length from the origin, in the direction angle.
lock_distance_3(body, angle, p) ==
    IF p.err # NoErr THEN p
    ELSE VectorFunction_insert(p.h, body.position, body.time,
                               RMul(angle[1], body.length),
                               RMul(angle[2], body.length))

lock_distance_2(h, body, angle) ==
    lock_distance_3(body, angle, VectorFunction_pop(h, body.position, -1))

lock_distance_1(h, body, d) ==
    IF d.err # NoErr THEN HErr(h, d.err)
    ELSE IF RLt(RSub(d.val, body.length), DistanceTolerance)
            \/ RGt(RAbs(Function_seek(h[body.position.x].points, -1).val[2]),
                   PositionTolerance)
    THEN HOk(h)
    ELSE lock_distance_2(h, body, angle_from_pivot(h, body).val)

\* lock_distance(body)
lock_distance(h, body) == lock_distance_1(h, body, distance_from_pivot(h, body))

\* abs(body.angle_from_pivot() + math.pi/2) > 0.01, for the angle <<cos, sin>>
OffBase(angle) ==
    ~(RLt(angle[2], RZero)
      /\ ~RGt(RAbs(angle[1]), RMul(RAbs(angle[2]), AngleTolerance)))

\* A callback's result: the heap, the exception, and the callback object.
CbResult(r, cb) == [h |-> r.h, err |-> r.err, cb |-> cb]

\* ResetVelocity.__call__, lines 62-66: time, v = body.velocity.x.pop(), then
\* the insert of the base velocity with the sign of v.
ResetVelocity_call_3(body, cb, p) ==
    CbResult(Function_insert(p.h, body.velocity.x, p.val[1],
                             IF RGt(p.val[2], RZero) THEN cb.base_velocity
                             ELSE RSub(RZero, cb.base_velocity), FALSE),
             cb)

\* ResetVelocity.__call__, lines 59-67: s is body.velocity.x.seek(-1)
ResetVelocity_call_2(h, body, cb, s) ==
    IF s.err # NoErr THEN CbResult(HErr(h, s.err), cb)
    ELSE IF cb.base_velocity # RZero
    THEN ResetVelocity_call_3(body, cb, Function_pop(h, body.velocity.x, -1))
    ELSE CbResult(HOk(h), [cb EXCEPT !.base_velocity = RAbs(s.val[2])])

ResetVelocity_call_1(h, body, cb, a) ==
    IF a.err # NoErr THEN CbResult(HErr(h, a.err), cb)
    ELSE IF OffBase(a.val) THEN CbResult(HOk(h), cb)
    ELSE ResetVelocity_call_2(h, body, cb,
                              Function_seek(h[body.velocity.x].points, -1))

\* ResetVelocity.__call__(body): cb is the callback object (self).
ResetVelocity_call(h, body, cb) ==
    ResetVelocity_call_1(h, body, cb, angle_from_pivot(h, body))

\* function(self), for one of the body's callbacks
run_callback(h, body, cb) ==
    IF cb.kind = LockDistance THEN CbResult(lock_distance(h, body), cb)
    ELSE ResetVelocity_call(h, body, cb)

\* for function in self.pre_step / self.post_step: function(self)
RECURSIVE run_callbacks(_, _, _, _)
run_callbacks_1(body, list, i, r) ==
    IF r.err # NoErr
    THEN Raise(r.h, [body EXCEPT ![list][i] = r.cb], r.err)
    ELSE run_callbacks(r.h, [body EXCEPT ![list][i] = r.cb], list, i + 1)

run_callbacks(h, body, list, i) ==
    IF i > Len(body[list]) THEN Ok(h, body)
    ELSE run_callbacks_1(body, list, i, run_callback(h, body, body[list][i]))

\* AnimatedBody.__step_acceleration
step_acceleration_1(h, body, a) ==
    IF a.err # NoErr THEN HErr(h, a.err)
    ELSE VectorFunction_insert(h, body.acceleration, body.time, a.val[1], a.val[2])

\* A __step_acceleration that evaluates the forces on the samples a
\* provisional insert at the new time has appended.
step_acceleration_after_insert(h, body) ==
    step_acceleration_1(h, body,
        generate_acceleration(
            VectorFunction_insert(h, body.acceleration, body.time,
                                  RZero, RZero).h, body))

step_acceleration(h, body) ==
    step_acceleration_1(h, body, generate_acceleration(h, body))

\* self.time += self.dt
advance_time(body) == [body EXCEPT !.time = RAdd(@, body.dt)]

\* AnimatedBody.step, lines 94-95: the post-step callbacks
step_3(body, r) ==
    IF r.err # NoErr THEN Raise(r.h, body, r.err)
    ELSE run_callbacks(r.h, body, "post_step", 1)

\* AnimatedBody.step, line 92: body.time is already advanced
step_2(h, body) == step_3(body, step_acceleration(h, body))

\* A step that advances the time after the acceleration sample is stored.
step_1_time_last(pre) ==
    IF pre.err # NoErr THEN pre
    ELSE step_3(advance_time(pre.body), step_acceleration(pre.h, pre.body))

\* AnimatedBody.step, line 90: self.time += self.dt
step_1(pre) ==
    IF pre.err # NoErr THEN pre ELSE step_2(pre.h, advance_time(pre.body))

\* AnimatedBody.step
step(h, body) == step_1(run_callbacks(h, body, "pre_step", 1))

(***************************************************************************)
(* Saving and replaying (src/physics/body.py, src/physics/body_replay.py). *)
(* The file is the JSON object Body.save writes: per trajectory and        *)
(* component the list of the [time, value] pairs kept.  json.dumps turns   *)
(* each stored tuple into a two-element list and json.loads gives the      *)
(* lists back; a finite float is written with the digits that read back    *)
(* as the same float.                                                      *)
(***************************************************************************)
\* round(q) of Python 3: to the nearest integer, a tie to the even one.
round(q) ==
    IF 2 * (q[1] % q[2]) < q[2] THEN q[1] \div q[2]
    ELSE IF 2 * (q[1] % q[2]) > q[2] THEN (q[1] \div q[2]) + 1
    ELSE IF (q[1] \div q[2]) % 2 = 0 THEN q[1] \div q[2]
    ELSE (q[1] \div q[2]) + 1

\* frame_dt = round((self.dt ** -1) / framerate)
frame_dt(body, framerate) == round(RDiv(RDiv(R(1), body.dt), R(framerate)))

\* [item[c] for item in iter(vf)][::every]: iter(vf) is zip(vf.x, vf.y), which
\* stops with the shorter component; n is its length.
Sliced(points, n, every) ==
    [i \in 1..((n + every - 1) \div every) |-> points[(i - 1) * every + 1]]

ZipLen(h, vf) ==
    IF Len(h[vf.x].points) < Len(h[vf.y].points)
    THEN Len(h[vf.x].points) ELSE Len(h[vf.y].points)

Saved(h, vf, every) ==
    [x |-> Sliced(h[vf.x].points, ZipLen(h, vf), every),
     y |-> Sliced(h[vf.y].points, ZipLen(h, vf), every)]

NoFile == [saved |-> FALSE]

\* Body.save: a slice step of 0 raises ValueError before the file is opened.
Body_save_1(h, body, every) ==
    IF every = 0 THEN [err |-> ValueError, file |-> NoFile]
    ELSE [err |-> NoErr,
          file |-> [saved |-> TRUE,
                    position |-> Saved(h, body.position, every),
                    velocity |-> Saved(h, body.velocity, every),
                    acceleration |-> Saved(h, body.acceleration, every)]]

Body_save(h, body, framerate) == Body_save_1(h, body, frame_dt(body, framerate))

\* A pair with its components exchanged.
VectorFunction_from_iter_2_swapped(fx, fy) ==
    [h |-> fy.h, vf |-> [x |-> fy.id, y |-> fx.id]]

\* VectorFunction.from_iter: VectorFunction() and then a Function.from_iter
\* for each component.
VectorFunction_from_iter_2(fx, fy) ==
    [h |-> fy.h, vf |-> [x |-> fx.id, y |-> fy.id]]

VectorFunction_from_iter_1(fx, y_iterable) ==
    VectorFunction_from_iter_2(fx, Function_from_iter(fx.h, y_iterable))

VectorFunction_from_iter(h, x_iterable, y_iterable) ==
    VectorFunction_from_iter_1(
        Function_from_iter(VectorFunction_init(h).h, x_iterable), y_iterable)

\* BodyReplay.load, line 86: output.time = output.position.x.seek(0)[0]
BodyReplay_load_4(p, v, a, s) ==
    [h |-> a.h, err |-> s.err,
     replay |-> [loaded |-> s.err = NoErr, position |-> p.vf, velocity |-> v.vf,
                 acceleration |-> a.vf, index |-> 0, time |-> s.val[1]]]

\* BodyReplay.load, lines 82-84
BodyReplay_load_3(p, v, a) ==
    BodyReplay_load_4(p, v, a, Function_seek(a.h[p.vf.x].points, 0))

BodyReplay_load_2(p, v, file) ==
    BodyReplay_load_3(p, v, VectorFunction_from_iter(v.h, file.acceleration.x,
                                                     file.acceleration.y))

BodyReplay_load_1(p, file) ==
    BodyReplay_load_2(p, VectorFunction_from_iter(p.h, file.velocity.x,
                                                  file.velocity.y), file)

\* BodyReplay.load: BodyReplay() creates three empty VectorFunctions, which
\* the loaded ones replace.
BodyReplay_load(h, file) ==
    BodyReplay_load_1(
        VectorFunction_from_iter(
            VectorFunction_init(VectorFunction_init(VectorFunction_init(h).h).h).h,
            file.position.x, file.position.y),
        file)

\* BodyReplay.step: self.index += 1, then the seek inside try/except.
BodyReplay_step_1(replay, s) ==
    IF s.err # NoErr
    THEN [replay |-> [replay EXCEPT !.index = @ + 1], ret |-> FALSE]
    ELSE [replay |-> [replay EXCEPT !.index = @ + 1, !.time = s.val[1]],
          ret |-> TRUE]

\* A step that seeks before it advances the index.
BodyReplay_step_seek_first(h, replay) ==
    BodyReplay_step_1(replay,
                      Function_seek(h[replay.position.x].points, replay.index))

BodyReplay_step(h, replay) ==
    BodyReplay_step_1(replay,
                      Function_seek(h[replay.position.x].points, replay.index + 1))

\* BodyReplay.get_state: the three seeks, in the order of the tuple.
BodyReplay_get_state_2(p, v, a) ==
    IF p.err # NoErr THEN Failed(p.err, <<p.val, v.val, a.val>>)
    ELSE IF v.err # NoErr THEN Failed(v.err, <<p.val, v.val, a.val>>)
    ELSE [err |-> a.err, val |-> <<p.val, v.val, a.val>>]

BodyReplay_get_state(h, replay) ==
    BodyReplay_get_state_2(VectorFunction_seek(h, replay.position, replay.index),
                           VectorFunction_seek(h, replay.velocity, replay.index),
                           VectorFunction_seek(h, replay.acceleration, replay.index))

(***************************************************************************)
(* State.  heap and body are the program's objects; err is the exception   *)
(* the last call raised (an uncaught exception ends the driver); op names  *)
(* the last call; prev is the heap and body as they were when that call    *)
(* began; g counts calls: k the step() calls, seedK the value of k when    *)
(* set_state was called (-1 before), with its arguments v, p, method and   *)
(* the number of forces attached then, inserts the direct inserts into     *)
(* body.acceleration and t the time of the last one, pc and i the position *)
(* inside a running step() call and at the heap and body as they were when *)
(* that call began, file the file Body.save wrote, with its framerate, and *)
(* ret what the last BodyReplay.step returned; fn is the object of the     *)
(* other drivers: the Function, the VectorFunction or the BodyReplay.      *)
(***************************************************************************)
VARIABLES heap, body, err, op, prev, g, fn

vars == <<heap, body, err, op, prev, g, fn>>

MaxSteps   == 3
MaxInserts == 1

NoFn == [used |-> FALSE]
G0   == [k |-> 0, seedK |-> -1, inserts |-> 0, seedForces |-> 0,
         v |-> <<RZero, RZero>>, p |-> <<RZero, RZero>>, method |-> "none",
         t |-> RZero, pc |-> "idle", i |-> 0, at |-> <<>>,
         file |-> NoFile, framerate |-> 0, ret |-> FALSE]

Dts        == {<<1, 2>>}
Velocities == {<<RZero, RZero>>, <<R(1), RZero>>}
Positions  == {<<RZero, RZero>>, <<RZero, R(-1)>>}
Forces     == {[kind |-> Gravity, source_mass |-> R(16), source_radius |-> R(4)],
               [kind |-> PendulumTension, source_mass |-> RZero,
                source_radius |-> RZero]}
\* The callback lists a driver installs: (pre_step, post_step).
CbLock       == [kind |-> LockDistance, base_velocity |-> RZero]
CbReset(v)   == [kind |-> ResetVelocity, base_velocity |-> v]
CallbackSets == {[pre_step |-> <<>>, post_step |-> <<CbLock>>],
                 [pre_step |-> <<>>, post_step |-> <<CbLock, CbReset(R(1))>>],
                 [pre_step |-> <<CbReset(RZero)>>, post_step |-> <<>>],
                 [pre_step |-> <<CbLock>>, post_step |-> <<CbReset(RZero)>>]}
InsertTimes  == {<<1, 4>>, R(5)}
InsertValues == {<<R(3), R(3)>>}

\* A body is constructed: Pendulum(mass, dt, pivot = [0, 0], length = 1) or
\* AnimatedBody(mass, dt).
InitBody ==
    \E dt \in Dts, pendulum \in BOOLEAN :
        LET b == Body_init(R(1), dt, pendulum, <<RZero, RZero>>, R(1))
        IN  /\ heap = b.h
            /\ body = b.body
            /\ err = NoErr
            /\ op = "init"
            /\ prev = [h |-> b.h, body |-> b.body]
            /\ g = G0
            /\ fn = NoFn

Running == err = NoErr

\* Forces, callbacks and the initial state are set up before the stepping
\* starts ("Forces are created once at setup").
Setup == g.k = 0 /\ g.inserts = 0

AddForce(f) ==
    /\ Running
    /\ Setup
    /\ body' = add_force(body, f)
    /\ op' = "add_force"
    /\ prev' = [h |-> heap, body |-> body]
    /\ UNCHANGED <<heap, err, g, fn>>

\* The driver fills body.pre_step and body.post_step.
AddCallbacks(c) ==
    /\ Running
    /\ Setup
    /\ body.pre_step = <<>> /\ body.post_step = <<>>
    /\ body' = [body EXCEPT !.pre_step = c.pre_step, !.post_step = c.post_step]
    /\ op' = "add_callbacks"
    /\ prev' = [h |-> heap, body |-> body]
    /\ UNCHANGED <<heap, err, g, fn>>

SetState(v, p, method) ==
    /\ Running
    /\ Setup
    /\ g.seedK = -1
    /\ LET r == set_state(heap, body, v[1], v[2], p[1], p[2], method)
       IN  /\ heap' = r.h
           /\ body' = r.body
           /\ err' = r.err
    /\ op' = "set_state"
    /\ prev' = [h |-> heap, body |-> body]
    /\ g' = [g EXCEPT !.seedK = g.k, !.seedForces = Len(body.forces),
                      !.v = v, !.p = p, !.method = method]
    /\ fn' = fn

Step ==
    /\ Running
    /\ g.k < MaxSteps
    /\ LET r == step(heap, body)
       IN  /\ heap' = r.h
           /\ body' = r.body
           /\ err' = r.err
    /\ op' = "step"
    /\ prev' = [h |-> heap, body |-> body]
    /\ g' = [g EXCEPT !.k = @ + 1]
    /\ fn' = fn

\* The driver inserts an acceleration sample itself:
\* body.acceleration.insert(t, ax, ay).
InsertAcceleration(t, a) ==
    /\ Running
    /\ g.seedK # -1
    /\ g.inserts < MaxInserts
    /\ LET r == VectorFunction_insert(heap, body.acceleration, t, a[1], a[2])
       IN  /\ heap' = r.h
           /\ err' = r.err
    /\ op' = "insert_acceleration"
    /\ prev' = [h |-> heap, body |-> body]
    /\ g' = [g EXCEPT !.inserts = @ + 1, !.t = t]
    /\ UNCHANGED <<body, fn>>

NextBody ==
    \/ \E f \in Forces : AddForce(f)
    \/ \E c \in CallbackSets : AddCallbacks(c)
    \/ \E v \in Velocities, p \in Positions, m \in IntegrationMethod : SetState(v, p, m)
    \/ Step
    \/ \E t \in InsertTimes, a \in InsertValues : InsertAcceleration(t, a)

SpecBody == InitBody /\ [][NextBody]_vars

(***************************************************************************)
(* step() followed line by line.  g.pc names the last sub-step the running *)
(* call has done: "pre" (g.i callbacks of pre_step have run), "time",      *)
(* "acceleration", "post" (g.i callbacks of post_step have run); it is     *)
(* "idle" between calls.  A call ends after its last sub-step or with the  *)
(* first exception.                                                        *)
(***************************************************************************)
Idle == g.pc = "idle"

\* The heap and body as they were when the running call began.
StartOf == IF Idle THEN <<heap, body>> ELSE g.at

\* step() has nothing left to do after sub-step pc with i callbacks run.
Returns(b, pc, i) ==
    \/ pc = "acceleration" /\ Len(b.post_step) = 0
    \/ pc = "post" /\ i = Len(b.post_step)

\* The position after sub-step pc, which raised e or nothing.
Position(b, pc, i, e) ==
    IF e # NoErr \/ Returns(b, pc, i)
    THEN [g EXCEPT !.pc = "idle", !.i = 0, !.k = @ + 1, !.at = StartOf]
    ELSE [g EXCEPT !.pc = pc, !.i = i, !.at = StartOf]

\* step(), lines 87-88: the next callback of self.pre_step
PreCallback ==
    /\ Running
    /\ g.k < MaxSteps
    /\ g.pc \in {"idle", "pre"}
    /\ g.i < Len(body.pre_step)
    /\ heap' = run_callback(heap, body, body.pre_step[g.i + 1]).h
    /\ err' = run_callback(heap, body, body.pre_step[g.i + 1]).err
    /\ body' = [body EXCEPT !.pre_step[g.i + 1] =
                    run_callback(heap, body, body.pre_step[g.i + 1]).cb]
    /\ g' = Position(body, "pre", g.i + 1,
                     run_callback(heap, body, body.pre_step[g.i + 1]).err)
    /\ op' = "pre_callback"
    /\ prev' = [h |-> heap, body |-> body]
    /\ fn' = fn

\* step(), line 90: self.time += self.dt, once the pre_step loop is over
AdvanceTime ==
    /\ Running
    /\ g.k < MaxSteps
    /\ g.pc \in {"idle", "pre"}
    /\ g.i = Len(body.pre_step)
    /\ body' = advance_time(body)
    /\ g' = Position(body, "time", 0, NoErr)
    /\ op' = "advance_time"
    /\ prev' = [h |-> heap, body |-> body]
    /\ UNCHANGED <<heap, err, fn>>

\* step(), line 92: self.__step_acceleration()
StepAcceleration ==
    /\ Running
    /\ g.pc = "time"
    /\ heap' = step_acceleration(heap, body).h
    /\ err' = step_acceleration(heap, body).err
    /\ g' = Position(body, "acceleration", 0, step_acceleration(heap, body).err)
    /\ op' = "step_acceleration"
    /\ prev' = [h |-> heap, body |-> body]
    /\ UNCHANGED <<body, fn>>

\* step(), lines 94-95: the next callback of self.post_step
PostCallback ==
    /\ Running
    /\ g.pc \in {"acceleration", "post"}
    /\ g.i < Len(body.post_step)
    /\ heap' = run_callback(heap, body, body.post_step[g.i + 1]).h
    /\ err' = run_callback(heap, body, body.post_step[g.i + 1]).err
    /\ body' = [body EXCEPT !.post_step[g.i + 1] =
                    run_callback(heap, body, body.post_step[g.i + 1]).cb]
    /\ g' = Position(body, "post", g.i + 1,
                     run_callback(heap, body, body.post_step[g.i + 1]).err)
    /\ op' = "post_callback"
    /\ prev' = [h |-> heap, body |-> body]
    /\ fn' = fn

NextSteps ==
    \/ \E f \in Forces : Idle /\ AddForce(f)
    \/ \E c \in CallbackSets : Idle /\ AddCallbacks(c)
    \/ \E v \in Velocities, p \in Positions, method \in IntegrationMethod :
           Idle /\ SetState(v, p, method)
    \/ PreCallback
    \/ AdvanceTime
    \/ StepAcceleration
    \/ PostCallback

SpecSteps == InitBody /\ [][NextSteps]_vars

(***************************************************************************)
(* Saving and replaying: a body is set up and stepped, saved once, the     *)
(* file is loaded into a BodyReplay (fn.replay), and the replay is stepped *)
(* and read.  For the calls on the replay prev.body is the BodyReplay as   *)
(* it was when the call began.                                             *)
(***************************************************************************)
MaxReplaySteps == 5

Framerates == {1, 2, 4}

Simulating == ~g.file.saved /\ ~fn.used

\* body.save(file_name, framerate)
Save(framerate) ==
    /\ Running
    /\ Simulating
    /\ err' = Body_save(heap, body, framerate).err
    /\ g' = [g EXCEPT !.file = Body_save(heap, body, framerate).file,
                      !.framerate = framerate]
    /\ op' = "save"
    /\ prev' = [h |-> heap, body |-> body]
    /\ UNCHANGED <<heap, body, fn>>

\* replay = BodyReplay.load(file_name)
Load ==
    /\ Running
    /\ g.file.saved
    /\ ~fn.used
    /\ heap' = BodyReplay_load(heap, g.file).h
    /\ err' = BodyReplay_load(heap, g.file).err
    /\ fn' = [used |-> TRUE, replay |-> BodyReplay_load(heap, g.file).replay]
    /\ op' = "load"
    /\ prev' = [h |-> heap, body |-> body]
    /\ UNCHANGED <<body, g>>

\* replay.step(), which catches the exception of its seek
ReplayStep ==
    /\ Running
    /\ fn.used
    /\ fn.replay.index < MaxReplaySteps
    /\ fn' = [fn EXCEPT !.replay = BodyReplay_step(heap, fn.replay).replay]
    /\ g' = [g EXCEPT !.ret = BodyReplay_step(heap, fn.replay).ret]
    /\ op' = "replay_step"
    /\ prev' = [h |-> heap, body |-> fn.replay]
    /\ UNCHANGED <<heap, body, err>>

\* replay.get_state()
GetState ==
    /\ Running
    /\ fn.used
    /\ err' = BodyReplay_get_state(heap, fn.replay).err
    /\ op' = "get_state"
    /\ prev' = [h |-> heap, body |-> fn.replay]
    /\ UNCHANGED <<heap, body, g, fn>>

NextReplay ==
    \/ \E f \in Forces : Simulating /\ AddForce(f)
    \/ \E v \in Velocities, p \in Positions, method \in IntegrationMethod :
           Simulating /\ SetState(v, p, method)
    \/ Simulating /\ Step
    \/ \E framerate \in Framerates : Save(framerate)
    \/ Load
    \/ ReplayStep
    \/ GetState

SpecReplay == InitBody /\ [][NextReplay]_vars


(***************************************************************************)
(* A driver of one Function (src/graph/function.py): it constructs a       *)
(* Function, or builds one with from_iter, and calls insert, append, pop,  *)
(* integral and __call__ on it.  An exception is caught and the driver     *)
(* goes on.  fn records what the driver did: id the Function, n the        *)
(* number of insert, append and integral calls, scheme and seed the        *)
(* arguments of integral, log the set of points given to insert or from_iter,    *)
(* only_inserts whether nothing but these filled the Function, trailing    *)
(* whether the last insert went to the end of the list, fresh whether      *)
(* every inserted x differed from the x stored at the time, plain whether  *)
(* only insert(check = False), append, pop and __call__ were called, arg   *)
(* and ret the argument and result of the last __call__ or pop.            *)
(***************************************************************************)
MaxOps     == 3
FromIterLen == 3

FnPoints   == {<<R(0), R(0)>>, <<R(2), R(4)>>, <<R(1), R(2)>>, <<R(1), R(9)>>}
FnDeltas   == {<<R(1), R(1)>>, <<RZero, R(1)>>}
FnSeeds    == {<<R(0), R(1)>>}
FnArgs     == {R(-1), R(0), <<1, 2>>, R(1), R(2), R(3)}
FnIndices  == {-1, 0}
FnIterables == UNION {[1..n -> FnPoints] : n \in 0..FromIterLen}

Fn0 == [used |-> TRUE, id |-> 1, n |-> 0, scheme |-> "none",
        seed |-> <<RZero, RZero>>, log |-> {}, only_inserts |-> TRUE,
        trailing |-> TRUE, fresh |-> TRUE, plain |-> TRUE,
        arg |-> RZero, ret |-> Value(RZero), built |-> FALSE, one |-> FALSE]

HasX(points, x) == \E i \in 1..Len(points) : points[i][1] = x

\* f = Function()
InitFn ==
    /\ heap = <<Function_init>>
    /\ body = "none"
    /\ err = NoErr
    /\ op = "init"
    /\ prev = [h |-> <<Function_init>>, body |-> "none"]
    /\ g = G0
    /\ fn = Fn0

\* f.insert(x, y, check)
FnInsert(pt, check) ==
    /\ fn.n < MaxOps
    /\ LET r == Function_insert(heap, fn.id, pt[1], pt[2], check)
       IN  /\ heap' = r.h
           /\ err' = r.err
           /\ fn' = [fn EXCEPT
                 !.n = @ + 1,
                 !.log = IF r.err = ValueError THEN @ ELSE @ \cup {pt},
                 !.trailing = search_best_index(heap[fn.id].points, pt[1], 0,
                                                Len(heap[fn.id].points))
                              = Len(heap[fn.id].points),
                 !.fresh = @ /\ ~HasX(heap[fn.id].points, pt[1]),
                 !.plain = @ /\ ~check,
                 !.arg = RZero, !.ret = Value(RZero)]
    /\ op' = "insert"
    /\ prev' = [h |-> heap, body |-> body]
    /\ UNCHANGED <<body, g>>

\* f.append(dx, dy)
FnAppend(d) ==
    /\ fn.n < MaxOps
    /\ LET r == Function_append(heap, fn.id, d[1], d[2])
       IN  /\ heap' = r.h
           /\ err' = r.err
           /\ fn' = [fn EXCEPT
                 !.n = @ + 1,
                 !.only_inserts = FALSE,
                 !.trailing = TRUE,
                 !.fresh = @ /\ (Len(heap[fn.id].points) = 0 \/ d[1] # RZero),
                 !.arg = RZero, !.ret = Value(RZero)]
    /\ op' = "append"
    /\ prev' = [h |-> heap, body |-> body]
    /\ UNCHANGED <<body, g>>

\* f.pop(index)
FnPop(index) ==
    /\ LET r == Function_pop(heap, fn.id, index)
       IN  /\ heap' = r.h
           /\ err' = r.err
           /\ fn' = [fn EXCEPT !.only_inserts = FALSE,
                               !.arg = RZero, !.ret = [err |-> r.err, val |-> r.val]]
    /\ op' = "pop"
    /\ prev' = [h |-> heap, body |-> body]
    /\ UNCHANGED <<body, g>>

\* f.integral(method, x_i, y_i); the driver calls it once.
FnIntegral(method, seed) ==
    /\ fn.n < MaxOps
    /\ fn.scheme = "none"
    /\ LET r == Function_integral(heap, fn.id, method, seed[1], seed[2])
       IN  /\ heap' = r.h
           /\ err' = r.err
    /\ fn' = [fn EXCEPT !.n = @ + 1, !.scheme = method, !.seed = seed,
                        !.built = Function_integral(heap, fn.id, method,
                                                    seed[1], seed[2]).err = NoErr,
                        !.plain = FALSE, !.arg = RZero, !.ret = Value(RZero)]
    /\ op' = "integral"
    /\ prev' = [h |-> heap, body |-> body]
    /\ UNCHANGED <<body, g>>

\* f(x)
FnCall(x) ==
    /\ LET r == Function_call(heap[fn.id].points, x)
       IN  /\ err' = r.err
           /\ fn' = [fn EXCEPT !.arg = x, !.ret = r]
    /\ op' = "call"
    /\ prev' = [h |-> heap, body |-> body]
    /\ UNCHANGED <<heap, body, g>>

\* f = Function.from_iter(iterable), in place of f = Function()
FnFromIter(iterable) ==
    /\ op = "init"
    /\ LET r == Function_from_iter(heap, iterable)
       IN  /\ heap' = r.h
           /\ err' = r.err
           /\ fn' = [fn EXCEPT
                 !.id = r.id, !.n = Len(iterable),
                 !.log = {iterable[i] : i \in 1..Len(iterable)},
                 !.fresh = \A i, j \in 1..Len(iterable) :
                              i # j => iterable[i][1] # iterable[j][1],
                 !.plain = FALSE]
    /\ op' = "from_iter"
    /\ prev' = [h |-> heap, body |-> body]
    /\ UNCHANGED <<body, g>>

NextFn ==
    \/ \E pt \in FnPoints, check \in BOOLEAN : FnInsert(pt, check)
    \/ \E d \in FnDeltas : FnAppend(d)
    \/ \E index \in FnIndices : FnPop(index)
    \/ \E method \in IntegrationMethod, seed \in FnSeeds : FnIntegral(method, seed)
    \/ \E x \in FnArgs : FnCall(x)
    \/ \E iterable \in FnIterables : FnFromIter(iterable)

SpecFn == InitFn /\ [][NextFn]_vars

\* ---- The integration driver ----
\* A Function is filled with derivative samples by insert(x, y) and then
\* integrated once, by integral(method, x_i, y_i).
MaxPoints == 3

IntPoints == {<<R(x), R(y)>> : x \in 0..3, y \in 0..3}
IntSeeds == {<<R(0), R(0)>>, <<R(1), R(2)>>}

\* d.insert(x, y), before the integral exists
IntInsert(pt) ==
    /\ fn.scheme = "none"
    /\ fn.n < MaxPoints
    /\ heap' = Function_insert(heap, fn.id, pt[1], pt[2], FALSE).h
    /\ err' = Function_insert(heap, fn.id, pt[1], pt[2], FALSE).err
    /\ fn' = [fn EXCEPT !.n = @ + 1]
    /\ op' = "insert"
    /\ prev' = [h |-> heap, body |-> body]
    /\ UNCHANGED <<body, g>>

\* d.integral(method, x_i, y_i)
IntIntegral(method, seed) ==
    /\ fn.scheme = "none"
    /\ heap' = Function_integral(heap, fn.id, method, seed[1], seed[2]).h
    /\ err' = Function_integral(heap, fn.id, method, seed[1], seed[2]).err
    /\ fn' = [fn EXCEPT !.scheme = method, !.seed = seed,
                        !.one = Len(heap[fn.id].points) = 1]
    /\ op' = "integral"
    /\ prev' = [h |-> heap, body |-> body]
    /\ UNCHANGED <<body, g>>

\* d.insert(x, y) once the integral is cached, with x beyond the last
\* stored x: the driver adds these points at the end only.
IntInsertTrailing(pt) ==
    /\ fn.scheme # "none"
    /\ err = NoErr
    /\ fn.n < MaxPoints
    /\ IF Len(heap[fn.id].points) = 0 THEN TRUE
       ELSE RGt(pt[1], heap[fn.id].points[Len(heap[fn.id].points)][1])
    /\ heap' = Function_insert(heap, fn.id, pt[1], pt[2], FALSE).h
    /\ err' = Function_insert(heap, fn.id, pt[1], pt[2], FALSE).err
    /\ fn' = [fn EXCEPT !.n = @ + 1]
    /\ op' = "insert_trailing"
    /\ prev' = [h |-> heap, body |-> body]
    /\ UNCHANGED <<body, g>>

NextInt ==
    \/ \E pt \in IntPoints : IntInsert(pt)
    \/ \E method \in IntegrationMethod, seed \in IntSeeds : IntIntegral(method, seed)
    \/ \E pt \in IntPoints : IntInsertTrailing(pt)

SpecInt == InitFn /\ [][NextInt]_vars

\* ---- The VectorFunction driver ----
\* v = VectorFunction(), then calls of v.insert, v.append, v.pop and, once,
\* v.integrate; fn.vf is v and fn.integ the pair integrate returned.
MaxVfOps == 4

VfTimes  == {R(0), R(1), R(2)}
VfValues == {<<R(1), R(2)>>}
VfDeltas == {R(0), R(1)}

NoVf == [x |-> None, y |-> None]

InitVf ==
    /\ heap = VectorFunction_init(<< >>).h
    /\ body = "none"
    /\ err = NoErr
    /\ op = "init"
    /\ prev = [h |-> VectorFunction_init(<< >>).h, body |-> "none"]
    /\ g = G0
    /\ fn = [used |-> TRUE, vf |-> VectorFunction_init(<< >>).vf, n |-> 0,
             integ |-> NoVf, raised |-> FALSE]

\* What a call of the driver leaves in fn: e is the exception it raised.
VfAfter(e) == [fn EXCEPT !.n = @ + 1, !.raised = @ \/ e # NoErr]

\* v.insert(time, x, y)
VfInsert(t, xy) ==
    /\ fn.n < MaxVfOps
    /\ heap' = VectorFunction_insert(heap, fn.vf, t, xy[1], xy[2]).h
    /\ err' = VectorFunction_insert(heap, fn.vf, t, xy[1], xy[2]).err
    /\ fn' = VfAfter(VectorFunction_insert(heap, fn.vf, t, xy[1], xy[2]).err)
    /\ op' = "insert"
    /\ prev' = [h |-> heap, body |-> body]
    /\ UNCHANGED <<body, g>>

\* v.append(dt, dx, dy)
VfAppend(dt, xy) ==
    /\ fn.n < MaxVfOps
    /\ heap' = VectorFunction_append(heap, fn.vf, dt, xy[1], xy[2]).h
    /\ err' = VectorFunction_append(heap, fn.vf, dt, xy[1], xy[2]).err
    /\ fn' = VfAfter(VectorFunction_append(heap, fn.vf, dt, xy[1], xy[2]).err)
    /\ op' = "append"
    /\ prev' = [h |-> heap, body |-> body]
    /\ UNCHANGED <<body, g>>

\* v.pop(index)
VfPop(index) ==
    /\ fn.n < MaxVfOps
    /\ heap' = VectorFunction_pop(heap, fn.vf, index).h
    /\ err' = VectorFunction_pop(heap, fn.vf, index).err
    /\ fn' = VfAfter(VectorFunction_pop(heap, fn.vf, index).err)
    /\ op' = "pop"
    /\ prev' = [h |-> heap, body |-> body]
    /\ UNCHANGED <<body, g>>

\* w = v.integrate(t_i, x_i, y_i, method)
VfIntegrate(t_i, xy, method) ==
    /\ fn.n < MaxVfOps
    /\ fn.integ = NoVf
    /\ heap' = VectorFunction_integrate(heap, fn.vf, t_i, xy[1], xy[2], method).h
    /\ err' = VectorFunction_integrate(heap, fn.vf, t_i, xy[1], xy[2], method).err
    /\ fn' = [VfAfter(VectorFunction_integrate(heap, fn.vf, t_i, xy[1], xy[2],
                                               method).err)
                 EXCEPT !.integ =
                    IF VectorFunction_integrate(heap, fn.vf, t_i, xy[1], xy[2],
                                                method).err = NoErr
                    THEN VectorFunction_integrate(heap, fn.vf, t_i, xy[1], xy[2],
                                                  method).vf
                    ELSE NoVf]
    /\ op' = "integrate"
    /\ prev' = [h |-> heap, body |-> body]
    /\ UNCHANGED <<body, g>>

NextVf ==
    \/ \E t \in VfTimes, xy \in VfValues : VfInsert(t, xy)
    \/ \E dt \in VfDeltas, xy \in VfValues : VfAppend(dt, xy)
    \/ \E index \in FnIndices : VfPop(index)
    \/ \E t_i \in VfTimes, xy \in VfValues, method \in IntegrationMethod :
           VfIntegrate(t_i, xy, method)

SpecVf == InitVf /\ [][NextVf]_vars


(***************************************************************************)
(* Properties.                                                             *)
(***************************************************************************)
PointsOf(id) == heap[id].points
XsOf(points) == [i \in 1..Len(points) |-> points[i][1]]

StrictlyIncreasing(points) ==
    \A i \in 1..(Len(points) - 1) : RLt(points[i][1], points[i + 1][1])

NonDecreasing(points) ==
    \A i \in 1..(Len(points) - 1) : ~RGt(points[i][1], points[i + 1][1])

DistinctX(points) ==
    \A i, j \in 1..Len(points) : i # j => points[i][1] # points[j][1]

\* The points of S, of pairwise distinct x, in ascending order of x.
SortedSeq(S) ==
    CHOOSE s \in [1..Cardinality(S) -> S] :
        /\ {s[i] : i \in 1..Cardinality(S)} = S
        /\ StrictlyIncreasing(s)

\* The samples of integral(method, seed) called on a new Function that was
\* built from the given points.
IntegralOf_2(r, id) == r.h[r.h[id].integral].points
IntegralOf_1(built, method, seed) ==
    IntegralOf_2(Function_integral(built.h, built.id, method, seed[1], seed[2]),
                 built.id)
IntegralOf(points, method, seed) ==
    IntegralOf_1(Function_from_iter(<<>>, points), method, seed)

\* The six component Functions of a body.
Components(b) == {b.acceleration.x, b.acceleration.y, b.velocity.x,
                  b.velocity.y, b.position.x, b.position.y}

Kinds(forces) == [i \in 1..Len(forces) |-> forces[i].kind]

NoCallbacks(b) == b.pre_step = <<>> /\ b.post_step = <<>>

\* Exactly one sample, at time 0, in each of the six components.
SeededAtZero ==
    \A id \in Components(body) :
        Len(PointsOf(id)) = 1 /\ PointsOf(id)[1][1] = RZero

\* 0, dt, ..., k * dt
TimesTo(k, dt) == [i \in 1..(k + 1) |-> RMul(R(i - 1), dt)]

\* ---- C1 ----
C1_Case ==
    /\ g.seedK = 0
    /\ g.inserts = 0
    /\ err = NoErr
    /\ NoCallbacks(body)

\* C1: on a body seeded by set_state before the first step, without
\* callbacks and without an exception, after k calls of step() the time is
\* k * dt, each of the six component functions holds the k + 1 samples of
\* times 0, dt, ..., k * dt, and a step() builds no integral anew: it
\* creates no Function object, and velocity and position remain the cached
\* integrals of acceleration and velocity.
C1_StepAppendsOneSample ==
    C1_Case =>
        /\ body.time = RMul(R(g.k), body.dt)
        /\ \A id \in Components(body) : XsOf(PointsOf(id)) = TimesTo(g.k, body.dt)
        /\ heap[body.acceleration.x].integral = body.velocity.x
        /\ heap[body.acceleration.y].integral = body.velocity.y
        /\ heap[body.velocity.x].integral = body.position.x
        /\ heap[body.velocity.y].integral = body.position.y
        /\ (op = "step" => Len(heap) = Len(prev.h))

C1_Witness ==
    /\ C1_Case
    /\ op = "step"
    /\ g.k >= 2
    /\ Kinds(body.forces) = <<Gravity, PendulumTension>>
    /\ g.method = RK4

\* ---- C2 ----
C2_Case == op = "set_state" /\ prev.body.forces = <<>>

\* C2: set_state(v0x, v0y, x0, y0, scheme) on a new body without forces
\* raises nothing and leaves the single samples (0, (0, 0)) in acceleration,
\* (0, (v0x, v0y)) in velocity and (0, (x0, y0)) in position, with time 0.
C2_SetStateSeeds ==
    C2_Case =>
        /\ err = NoErr
        /\ body.time = RZero
        /\ PointsOf(body.acceleration.x) = << <<RZero, RZero>> >>
        /\ PointsOf(body.acceleration.y) = << <<RZero, RZero>> >>
        /\ PointsOf(body.velocity.x) = << <<RZero, g.v[1]>> >>
        /\ PointsOf(body.velocity.y) = << <<RZero, g.v[2]>> >>
        /\ PointsOf(body.position.x) = << <<RZero, g.p[1]>> >>
        /\ PointsOf(body.position.y) = << <<RZero, g.p[2]>> >>

C2_Witness ==
    /\ C2_Case
    /\ g.method = TRAPEZOIDAL
    /\ g.v = <<R(1), RZero>>
    /\ g.p = <<RZero, R(-1)>>
    /\ PointsOf(body.position.y) = << <<RZero, R(-1)>> >>

\* ---- C3 ----
\* set_state is called on a Pendulum that carries Gravity and then
\* PendulumTension.
C3_AttachedFirst ==
    /\ op = "set_state"
    /\ body.pendulum
    /\ Kinds(prev.body.forces) = <<Gravity, PendulumTension>>

\* Gravity and then PendulumTension were attached to a Pendulum after
\* set_state had seeded it without forces, and nothing else was called.
C3_SeededFirst ==
    /\ body.pendulum
    /\ g.seedK = 0 /\ g.seedForces = 0
    /\ g.k = 0 /\ g.inserts = 0
    /\ Kinds(body.forces) = <<Gravity, PendulumTension>>

\* C3 as stated: after constructing a Pendulum and attaching Gravity and
\* then PendulumTension, set_state completes without error and leaves
\* exactly one time-0 sample in each of acceleration, velocity and position.
C3_AttachThenSeedWorks == C3_AttachedFirst => (err = NoErr /\ SeededAtZero)

\* C3, amended: the order that works is the one of compile_simulation:
\* construct the Pendulum, call set_state, then attach Gravity and
\* PendulumTension; the body is then seeded with one time-0 sample in each
\* component.  set_state called after the two forces were attached raises
\* IndexError and leaves all six components empty.
C3_SeedThenAttachWorks ==
    /\ C3_SeededFirst => (err = NoErr /\ SeededAtZero)
    /\ C3_AttachedFirst =>
          /\ err = IndexError
          /\ \A id \in Components(body) : PointsOf(id) = <<>>

C3_Witness == C3_SeededFirst /\ op = "add_force" /\ g.method = RK4

\* ---- C4 ----
\* C4 as stated: when step() raises, the time and all samples of
\* acceleration, velocity and position are what they were before the call.
C4_FailedStepChangesNothing ==
    (op = "step" /\ err # NoErr) =>
        /\ body.time = prev.body.time
        /\ \A id \in Components(prev.body) : PointsOf(id) = prev.h[id].points
        /\ Components(body) = Components(prev.body)

\* ---- C5 ----
\* step() was called on a body on which set_state was never called.
C5_Case == op = "step" /\ g.seedK = -1

\* The exceptions of the spec's EmptyFunction: ValueError from __call__,
\* IndexError from append, pop and seek.
EmptyFunction == {ValueError, IndexError}

C7_Case ==
    /\ op = "insert_acceleration"
    /\ err = NoErr
    /\ Len(prev.h[body.acceleration.x].points) > 0
    /\ RLt(g.t, prev.h[body.acceleration.x].points[
                    Len(prev.h[body.acceleration.x].points)][1])

\* C7 as stated: after an acceleration sample was inserted before the last
\* stored time, body.velocity is the integral of the updated acceleration
\* and body.position the integral of that velocity.
C7_InsertRecomputesTrajectories ==
    C7_Case =>
        /\ PointsOf(body.velocity.x) =
              IntegralOf(PointsOf(body.acceleration.x), g.method, <<RZero, g.v[1]>>)
        /\ PointsOf(body.velocity.y) =
              IntegralOf(PointsOf(body.acceleration.y), g.method, <<RZero, g.v[2]>>)
        /\ PointsOf(body.position.x) =
              IntegralOf(PointsOf(body.velocity.x), g.method, <<RZero, g.p[1]>>)
        /\ PointsOf(body.position.y) =
              IntegralOf(PointsOf(body.velocity.y), g.method, <<RZero, g.p[2]>>)

\* ---- C6 ----
\* integral(scheme, x0, y0) was cached on F, and the last call inserted a
\* point before the end of F, whose points have pairwise distinct x.
C6_Case ==
    /\ op = "insert"
    /\ err = NoErr
    /\ fn.scheme # "none"
    /\ ~fn.trailing
    /\ DistinctX(PointsOf(fn.id))

C8_Case == fn.used /\ fn.only_inserts /\ fn.fresh

C8_Example == << <<R(0), R(0)>>, <<R(2), R(4)>>, <<R(1), R(2)>> >>

C8_ExampleStored(r) ==
    r.h[r.id].points = << <<R(0), R(0)>>, <<R(1), R(2)>>, <<R(2), R(4)>> >>

\* C8: points of pairwise distinct x, inserted in any order by insert or
\* from_iter, are stored as the one sequence sorted by ascending x; from_iter
\* of (0,0), (2,4), (1,2) stores [(0,0), (1,2), (2,4)].
C8_InsertionOrderIrrelevant ==
    /\ C8_Case => PointsOf(fn.id) = SortedSeq(fn.log)
    /\ C8_ExampleStored(Function_from_iter(<<>>, C8_Example))

C8_Witness ==
    /\ C8_Case
    /\ op = "insert"
    /\ ~fn.trailing
    /\ Cardinality(fn.log) = 3

\* ---- C9 ----
\* C9 as stated: after any calls of insert(check = False), append and pop
\* the stored x are strictly increasing.
C9_StrictlyIncreasing == (fn.used /\ fn.plain) => StrictlyIncreasing(PointsOf(fn.id))

\* C9, amended: the stored x are non-decreasing in every state, and
\* strictly increasing as long as no insert or append gave an x that was
\* already stored: insert(check = False) stores a duplicate x next to the
\* stored one.
C9_NonDecreasing ==
    fn.used =>
        /\ NonDecreasing(PointsOf(fn.id))
        /\ (fn.fresh => StrictlyIncreasing(PointsOf(fn.id)))

C9_Witness ==
    /\ fn.used /\ fn.plain /\ ~fn.fresh
    /\ op = "insert"
    /\ Len(PointsOf(fn.id)) = 3
    /\ ~StrictlyIncreasing(PointsOf(fn.id))

\* ---- C10 ----
\* The line through a and b, at x.
Lerp(a, b, x) ==
    RAdd(a[2], RDiv(RMul(RSub(b[2], a[2]), RSub(x, a[1])), RSub(b[1], a[1])))

\* The Function holds at least 2 points of pairwise distinct x and was
\* called at an x within the stored range.
C10_Case ==
    /\ op = "call"
    /\ Len(PointsOf(fn.id)) >= 2
    /\ DistinctX(PointsOf(fn.id))
    /\ ~RLt(fn.arg, PointsOf(fn.id)[1][1])
    /\ ~RGt(fn.arg, PointsOf(fn.id)[Len(PointsOf(fn.id))][1])

C10_On(points, x, ret) ==
    /\ ret.err = NoErr
    /\ \A i \in 1..(Len(points) - 1) :
          (~RLt(x, points[i][1]) /\ ~RGt(x, points[i + 1][1]))
              => ret.val = Lerp(points[i], points[i + 1], x)
    /\ \A i \in 1..Len(points) : x = points[i][1] => ret.val = points[i][2]

\* C10: with at least 2 points of pairwise distinct x and x within the
\* stored range, the value at x is the linear interpolation on the segment
\* that brackets x, and at a stored x, the first and the last included, it
\* is the stored y (in exact arithmetic).
C10_EvaluateInterpolates == C10_Case => C10_On(PointsOf(fn.id), fn.arg, fn.ret)

C10_Witness ==
    /\ C10_Case
    /\ PointsOf(fn.id) = << <<R(0), R(0)>>, <<R(1), R(9)>>, <<R(2), R(4)>> >>
    /\ fn.arg = R(0)
    /\ fn.ret = Value(R(0))

\* ---- C11 ----
\* The Function holds at least 2 points of pairwise distinct x and was
\* called at an x outside the stored range.
C11_Case ==
    /\ op = "call"
    /\ Len(PointsOf(fn.id)) >= 2
    /\ DistinctX(PointsOf(fn.id))
    /\ \/ RGt(fn.arg, PointsOf(fn.id)[Len(PointsOf(fn.id))][1])
       \/ RLt(fn.arg, PointsOf(fn.id)[1][1])

C11_On(points, x, ret) ==
    /\ ret.err = NoErr
    /\ RGt(x, points[Len(points)][1])
          => ret.val = Lerp(points[Len(points) - 1], points[Len(points)], x)
    /\ RLt(x, points[1][1]) => ret.val = Lerp(points[1], points[2], x)

\* C11: with at least 2 points of pairwise distinct x, the value at an x
\* greater than the last stored x lies on the line through the last two
\* stored points, and the value at an x smaller than the first stored x on
\* the line through the first two.
C11_EvaluateExtrapolates == C11_Case => C11_On(PointsOf(fn.id), fn.arg, fn.ret)

C11_Witness ==
    /\ C11_Case
    /\ PointsOf(fn.id) = << <<R(0), R(0)>>, <<R(1), R(9)>>, <<R(2), R(4)>> >>
    /\ fn.arg = R(3)
    /\ fn.ret = Value(R(-1))

\* ---- C12 ----
\* What insert(x, y, check = True) does in a step of the driver: with the x
\* stored it raises ValueError and changes no Function, the cached integral
\* included; otherwise it does what insert(x, y) does.
C12_Step(pt) ==
    FnInsert(pt, TRUE) =>
        IF HasX(PointsOf(fn.id), pt[1])
        THEN err' = ValueError /\ heap' = heap
        ELSE /\ heap' = Function_insert(heap, fn.id, pt[1], pt[2], FALSE).h
             /\ err' = Function_insert(heap, fn.id, pt[1], pt[2], FALSE).err

\* C12: insert(x, y, check = True) fails with ValueError (the spec's
\* DuplicatePoint) when a stored point has that x, and leaves the stored
\* points and the cached integral unchanged; when no stored point has that
\* x it has the effect of insert(x, y).
C12_CheckedInsert == [][\A pt \in FnPoints : C12_Step(pt)]_vars

C12_Witness ==
    /\ op = "insert"
    /\ err = ValueError
    /\ heap = prev.h
    /\ fn.scheme = EULER
    /\ Len(PointsOf(fn.id)) >= 1
    /\ heap[fn.id].integral # None

\* ---- C13 ----
\* append or pop has just run on a Function that had no stored points.
C13_Case ==
    /\ op \in {"append", "pop"}
    /\ Len(prev.h[fn.id].points) = 0

\* The error of evaluating, and of seeking in, a Function with no points.
C13_EvaluateKind == Function_call(<< >>, RZero).err
C13_SeekKind == Function_seek(<< >>, -1).err

\* C13 as stated: append and pop on a Function with no stored points fail
\* with the error kind of evaluate on an empty Function, which differs from
\* the kind of seek out of bounds, and leave the Function empty.
C13_EmptyFailsAsEvaluate ==
    C13_Case =>
        /\ err = C13_EvaluateKind
        /\ err # C13_SeekKind
        /\ Len(PointsOf(fn.id)) = 0

\* C13 as the code has it: append and pop on a Function with no stored
\* points fail with IndexError, the kind of seek out of bounds, which differs
\* from the ValueError of evaluate on an empty Function, and they leave the
\* Function empty.
C13_EmptyFailsAsSeek ==
    C13_Case =>
        /\ err = IndexError
        /\ err = C13_SeekKind
        /\ err # C13_EvaluateKind
        /\ heap = prev.h
        /\ Len(PointsOf(fn.id)) = 0

C13_Witness ==
    /\ C13_Case
    /\ op = "append"
    /\ err = IndexError
    /\ PointsOf(fn.id) = << >>

\* ---- C14 ----
\* The samples of the integral cached on Function id.
IntegralPoints(id) == heap[heap[id].integral].points

\* integral() has just run on a Function of 2 or more points at distinct x
\* that all have the same y.
C14_Case ==
    /\ op = "integral"
    /\ Len(PointsOf(fn.id)) >= 2
    /\ DistinctX(PointsOf(fn.id))
    /\ \A i \in 1..Len(PointsOf(fn.id)) :
           PointsOf(fn.id)[i][2] = PointsOf(fn.id)[1][2]

C14_On(P, I) ==
    /\ Len(I) = Len(P)
    /\ \A i \in 1..(Len(P) - 1) :
           RSub(I[i + 1][2], I[i][2]) = RMul(P[1][2], RSub(P[i + 1][1], P[i][1]))

IsIdentitySamples(P, dx) ==
    \A i \in 1..Len(P) : P[i] = <<R((i - 1) * dx), R((i - 1) * dx)>>

\* integral(RK4, 0, 0) has just run on 2 or more samples of d(x) = x.
C15_Case ==
    /\ op = "integral"
    /\ fn.scheme = RK4
    /\ fn.seed = <<R(0), R(0)>>
    /\ Len(PointsOf(fn.id)) >= 2
    /\ \E dx \in 1..3 : IsIdentitySamples(PointsOf(fn.id), dx)

C15_On(P, I) ==
    /\ Len(I) = Len(P)
    /\ \A i \in 1..Len(P) :
           /\ I[i][1] = P[i][1]
           /\ I[i][2] = RDiv(RMul(P[i][1], P[i][1]), R(2))

\* C15: integrating the derivative d(x) = x (stored samples (0, 0),
\* (dx, dx), (2 dx, 2 dx), ...) from (0, 0) with RK4 yields integral samples
\* whose value at each sampled x equals x * x / 2.
C15_RK4IntegratesIdentity ==
    C15_Case => err = NoErr /\ C15_On(PointsOf(fn.id), IntegralPoints(fn.id))

\* ---- C16 ----
\* integral(TRAPEZOIDAL, x0, y0) has just run on 2 or more points at
\* distinct x.
C16_Case ==
    /\ op = "integral"
    /\ fn.scheme = TRAPEZOIDAL
    /\ Len(PointsOf(fn.id)) >= 2
    /\ DistinctX(PointsOf(fn.id))

C16_On(P, I) ==
    /\ Len(I) = Len(P)
    /\ \A i \in 1..(Len(P) - 1) :
           RSub(I[i + 1][2], I[i][2])
               = RMul(RSub(P[i + 1][1], P[i][1]),
                      RDiv(RAdd(P[i][2], P[i + 1][2]), R(2)))

\* C16: integral(TRAPEZOIDAL, x0, y0) appends, for every consecutive pair of
\* stored points of the source, one integral sample whose increment equals
\* that segment's width times the average of the derivative at that
\* segment's two endpoints.
C16_TrapezoidPerSegment ==
    C16_Case => err = NoErr /\ C16_On(PointsOf(fn.id), IntegralPoints(fn.id))

\* ---- C17 ----
\* integral(EULER, x0, y0) has just run on points at distinct x, with x0 the
\* first stored x.
C17_Case ==
    /\ op = "integral"
    /\ fn.scheme = EULER
    /\ Len(PointsOf(fn.id)) >= 2
    /\ DistinctX(PointsOf(fn.id))
    /\ fn.seed[1] = PointsOf(fn.id)[1][1]

C17_On(P, I, seed) ==
    /\ Len(I) = Len(P)
    /\ I[1] = seed
    /\ \A i \in 1..(Len(P) - 1) :
           /\ I[i + 1][1] = P[i + 1][1]
           /\ RSub(I[i + 1][2], I[i][2])
                  = RMul(RSub(P[i + 1][1], P[i][1]), P[i][2])

C18_TensionNeedsGravity ==
    /\ HasForce(body, PendulumTension) => HasForce(body, Gravity)
    /\ (/\ op = "add_force"
        /\ ~HasForce(prev.body, PendulumTension)
        /\ ~HasForce(prev.body, Gravity)
        /\ HasForce(body, PendulumTension)) => err # NoErr

\* A step() call followed line by line has just ended; whole is what
\* step() does to the heap and body the call began with.
StepAgrees(whole) ==
    /\ heap = whole.h
    /\ body = whole.body
    /\ err = whole.err
SubStepOps == {"pre_callback", "advance_time", "step_acceleration", "post_callback"}
StepIsItsSubSteps ==
    (Idle /\ op \in SubStepOps) => StepAgrees(step(g.at[1], g.at[2]))

\* ---- C19 ----
\* A post-step callback has just run on a Pendulum that set_state seeded
\* before its first step.
C19_Case ==
    /\ op = "post_callback"
    /\ body.pendulum
    /\ g.seedK = 0

\* Function id has the samples it had, but for the value of the last one.
SameButTrailingValue(id) ==
    /\ XsOf(PointsOf(id)) = XsOf(prev.h[id].points)
    /\ \A i \in 1..(Len(PointsOf(id)) - 1) : PointsOf(id)[i] = prev.h[id].points[i]

\* C19: lock_distance and ResetVelocity, run as post-step callbacks on a
\* seeded Pendulum, change at most the value of the trailing sample of the
\* function they correct: the number of samples and every time coordinate of
\* both components of position, velocity and acceleration are after the
\* callback what they were before it.
C19_CallbackKeepsTimes ==
    C19_Case => \A id \in Components(body) : SameButTrailingValue(id)

\* ---- C20 ----
\* The numbers of samples of the two components of b's acceleration in h.
AccelerationCounts(h, b) ==
    <<Len(h[b.acceleration.x].points), Len(h[b.acceleration.y].points)>>

\* The last acceleration sample of b in h is at time t, in both components.
NewSampleAt(h, b, t) ==
    /\ Function_seek(h[b.acceleration.x].points, -1).val[1] = t
    /\ Function_seek(h[b.acceleration.y].points, -1).val[1] = t

OneMore(counts) == <<counts[1] + 1, counts[2] + 1>>

\* What each sub-step found and left, against the heap and body the call
\* began with (g.at).
C20_Observed ==
    /\ op = "pre_callback" =>
           /\ prev.body.time = g.at[2].time
           /\ AccelerationCounts(prev.h, prev.body)
                  = AccelerationCounts(g.at[1], g.at[2])
           /\ (g.pc = "pre" /\ g.i = 1) =>
                  \A id \in Components(body) :
                      Len(prev.h[id].points) = Len(g.at[1][id].points)
    /\ op = "advance_time" =>
           /\ prev.body.time = g.at[2].time
           /\ body.time = RAdd(g.at[2].time, body.dt)
           /\ heap = prev.h
    /\ (op = "step_acceleration" /\ err = NoErr) =>
           /\ prev.body.time = RAdd(g.at[2].time, body.dt)
           /\ body = prev.body
           /\ AccelerationCounts(heap, body)
                  = OneMore(AccelerationCounts(g.at[1], g.at[2]))
           /\ NewSampleAt(heap, body, body.time)
           /\ g.seedK = 0 =>
                  \A id \in Components(body) :
                      Len(PointsOf(id)) = Len(prev.h[id].points) + 1
    /\ op = "post_callback" =>
           /\ prev.body.time = RAdd(g.at[2].time, body.dt)
           /\ AccelerationCounts(prev.h, prev.body)
                  = OneMore(AccelerationCounts(g.at[1], g.at[2]))
           /\ NewSampleAt(prev.h, prev.body, prev.body.time)

\* The order in which a call moves through its sub-steps.
C20_Order ==
    /\ g'.pc = "pre" => g.pc \in {"idle", "pre"} /\ g'.i = g.i + 1
    /\ g'.pc = "time" => g.pc \in {"idle", "pre"} /\ g.i = Len(body.pre_step)
    /\ g'.pc = "acceleration" => g.pc = "time"
    /\ g'.pc = "post" => g.pc \in {"acceleration", "post"} /\ g'.i = g.i + 1
    /\ (g'.pc = "idle" /\ op' \in SubStepOps /\ err' = NoErr) =>
           \/ g.pc = "time" /\ body.post_step = << >>
           \/ /\ g.pc \in {"acceleration", "post"}
              /\ g.i + 1 = Len(body.post_step)

Lockstep(vf) == XsOf(PointsOf(vf.x)) = XsOf(PointsOf(vf.y))

\* The pair of integrals cached on the components of vf.
CachedPair(vf) == [x |-> heap[vf.x].integral, y |-> heap[vf.y].integral]

\* C21: starting from a VectorFunction whose components have the same
\* length and time coordinates, any sequence of insert, append and pop
\* calls leaves the two components with the same length and the same time
\* coordinates, and so it leaves the paired integral that integrate
\* returned.
C21_Lockstep ==
    /\ Lockstep(fn.vf)
    /\ fn.integ # NoVf => Lockstep(fn.integ)

\* The same for the calls that raised nothing so far.
C21_LockstepOfReturned == ~fn.raised => C21_Lockstep

\* ---- C22 ----
\* The number of samples of the loaded replay.
ReplayLen == Len(PointsOf(fn.replay.position.x))

\* step() has just run on a loaded BodyReplay of 1 or more samples.
C22_Case ==
    /\ op = "replay_step"
    /\ ReplayLen >= 1

\* C22: on a BodyReplay loaded with n >= 1 samples, step() returns True
\* exactly when a next recorded sample exists (the advanced index is < n),
\* and then time becomes that sample's time coordinate; otherwise it
\* returns False and time is unchanged.
C22_StepReturn ==
    C22_Case =>
        /\ g.ret = (prev.body.index + 1 < ReplayLen)
        /\ fn.replay.index = prev.body.index + 1
        /\ g.ret => fn.replay.time
                        = PointsOf(fn.replay.position.x)[fn.replay.index + 1][1]
        /\ ~g.ret => fn.replay.time = prev.body.time

C22_Witness ==
    /\ C22_Case
    /\ g.ret
    /\ ReplayLen = 2
    /\ g.framerate = 1
    /\ fn.replay.index = 1
    /\ fn.replay.time = R(1)

\* ---- C23 ----
Trajectories == {"position", "velocity", "acceleration"}

\* The file has just been loaded; the body is as it was saved.
C23_Case ==
    /\ op = "load"
    /\ err = NoErr
    /\ frame_dt(body, g.framerate) >= 1

\* Every sample i (from 0) of the loaded Function has the value of sample
\* i * F of the saved one; with own it also has its time, otherwise the
\* time i.
C23_On(loaded, saved, F, own) ==
    \A i \in 0..(Len(loaded) - 1) :
        /\ i * F + 1 <= Len(saved)
        /\ loaded[i + 1][2] = saved[i * F + 1][2]
        /\ loaded[i + 1][1] = IF own THEN saved[i * F + 1][1] ELSE R(i)

C23_All(own) ==
    \A T \in Trajectories :
        /\ C23_On(PointsOf(fn.replay[T].x), PointsOf(body[T].x),
                  frame_dt(body, g.framerate), own)
        /\ C23_On(PointsOf(fn.replay[T].y), PointsOf(body[T].y),
                  frame_dt(body, g.framerate), own)

\* C23 as stated: saving a body with frame interval F = round((1/dt) /
\* framerate) >= 1 and loading the file yields a replay in which, for each
\* trajectory and component, the i-th sample holds the value of the body's
\* sample number i * F and has the sample index i as its time coordinate.
C23_LoadedWithIndexTimes == C23_Case => C23_All(FALSE)

\* C23 as the code has it: the i-th sample of the replay is the body's
\* sample number i * F, value and time coordinate, and the replay holds
\* every F-th sample the body's two components both have.
C23_LoadedWithOwnTimes ==
    C23_Case =>
        /\ C23_All(TRUE)
        /\ \A T \in Trajectories :
               /\ Len(PointsOf(fn.replay[T].x)) = Len(g.file[T].x)
               /\ Len(PointsOf(fn.replay[T].y)) = Len(g.file[T].y)
               /\ (Len(g.file[T].x) - 1) * frame_dt(body, g.framerate)
                      < ZipLen(heap, body[T])
               /\ Len(g.file[T].x) * frame_dt(body, g.framerate)
                      >= ZipLen(heap, body[T])

C23_Witness ==
    /\ C23_Case
    /\ g.framerate = 2
    /\ g.k = 3
    /\ PointsOf(fn.replay.position.x)[2][1] = <<1, 2>>
    /\ Len(PointsOf(fn.replay.velocity.y)) = 4
    /\ PointsOf(fn.replay.position.x)[4] # PointsOf(fn.replay.position.y)[4]

\* ---- C27 ----
\* C27: on a BodyReplay loaded with n >= 1 samples, after any sequence of
\* step() calls the cursor index stays within 0..n-1, so that get_state()
\* never fails.
C27_CursorInRange ==
    (fn.used /\ fn.replay.loaded /\ ReplayLen >= 1) =>
        /\ fn.replay.index \in 0..(ReplayLen - 1)
        /\ op = "get_state" => err = NoErr

\* ---- C25 ----
\* C25: for a Function on which integral() has been called, after any
\* sequence of insert, append and pop calls (the first insert into a
\* Function that was empty when integral() was called included) the cached
\* integral holds exactly as many samples as the Function whenever the
\* Function is not empty, and the integral's x-values are pairwise distinct.
C25_IntegralInStep ==
    (fn.built /\ Len(PointsOf(fn.id)) >= 1) =>
        /\ Len(IntegralPoints(fn.id)) = Len(PointsOf(fn.id))
        /\ DistinctX(IntegralPoints(fn.id))

\* ---- C24 ----
\* integral() was cached on a Function of one point, and the points that
\* followed were inserted at the end.
C24_Case ==
    /\ op = "insert_trailing"
    /\ fn.one

\* C24: for each scheme, caching integral(scheme, x0, y0) on a Function
\* that holds one point and then adding points only by trailing inserts
\* yields, after every insert, the same cached integral samples as calling
\* integral(scheme, x0, y0) once on a Function that holds the same points.
C24_IncrementalIsBuild ==
    C24_Case =>
        /\ err = NoErr
        /\ IntegralPoints(fn.id) = IntegralOf(PointsOf(fn.id), fn.scheme, fn.seed)

\* ---- C26 ----
C26_Case ==
    /\ op = "step_acceleration"
    /\ err = NoErr

\* The trailing samples of both components of vf in h are at time t.
TrailingAt(h, vf, t) ==
    /\ Function_seek(h[vf.x].points, -1).val[1] = t
    /\ Function_seek(h[vf.y].points, -1).val[1] = t

\* On a seeded body without callbacks the trailing position and velocity
\* samples before the insert are those of the time t the step began at.  (A
\* callback that re-inserts a trailing sample can leave a component with a
\* trailing sample of another time; the forces still read the trailing
\* samples.)
C26_ReadsTimeT ==
    (C26_Case /\ g.seedK # -1 /\ body.pre_step = <<>> /\ body.post_step = <<>>) =>
        /\ TrailingAt(prev.h, body.position, RSub(body.time, body.dt))
        /\ TrailingAt(prev.h, body.velocity, RSub(body.time, body.dt))

\* The sample stored at the new time is the net force over the mass as the
\* heap before the insert gives it.
C26_Inserted ==
    C26_Case =>
        /\ generate_acceleration(prev.h, prev.body).err = NoErr
        /\ Function_seek(PointsOf(body.acceleration.x), -1).val
               = <<body.time, generate_acceleration(prev.h, prev.body).val[1]>>
        /\ Function_seek(PointsOf(body.acceleration.y), -1).val
               = <<body.time, generate_acceleration(prev.h, prev.body).val[2]>>

=============================================================================
